---- MODULE Spec2Model ----
(***************************************************************************)
(* Model of zim.notebook.notebook.Notebook: the page cache, the store /    *)
(* move / rename / delete protocol with its link repair passes, and the    *)
(* relative link notation.  Every handler is one atomic action; the order  *)
(* of the calls a handler makes is recorded in the variable log.           *)
(***************************************************************************)
EXTENDS Integers, Sequences, FiniteSets, TLC

\* ------------------------------------------------------------------ bounds
MaxOps == 3        \* calls made in a run on a notebook whose page objects are kept
MaxCalls == 1      \* calls made in a run on a notebook with links
MaxHandles == 2    \* page objects the callers obtain in a run
MaxPages == 3      \* pages with content in the notebook a run starts from
MaxNumber == 2     \* the highest number get_new_page comes to

\* ------------------------------------------------------------------ evaluation
\* the value v, computed once, where F uses it
With(v, F(_)) == F(v)
\* the statement F that follows w runs unless an exception ended the handler
Then(w, F(_)) == IF w.err # "" THEN w ELSE F(w)

\* ------------------------------------------------------------------ names
Root == <<>>
\* the names a notebook of the model starts with
BasePaths ==
  {<<"a">>, <<"p">>, <<"q">>, <<"p", "a">>, <<"p", "b">>, <<"p", "c">>, <<"q", "a">>}
\* the names get_new_page can come to
NumberedPaths == {<<"a 1">>, <<"a 2">>}
Paths == BasePaths \cup NumberedPaths

\* the characters of a name segment
SegChars(s) ==
  CASE s = "a" -> <<"a">>
    [] s = "a 1" -> <<"a", " ", "1">>
    [] s = "a 2" -> <<"a", " ", "2">>
    [] OTHER -> <<s>>

\* Path.name: the segments joined by ':' (a sequence of characters)
RECURSIVE Name(_)
Name(p) ==
  IF Len(p) = 0 THEN <<>>
  ELSE IF Len(p) = 1 THEN SegChars(p[1])
  ELSE SegChars(p[1]) \o <<":">> \o Name(Tail(p))

\* str.startswith
StartsWith(k, ns) == Len(k) >= Len(ns) /\ SubSeq(k, 1, Len(ns)) = ns

\* p.ischild(parent): p lies strictly below parent
IsChild(p, parent) ==
  Len(p) > Len(parent) /\ SubSeq(p, 1, Len(parent)) = parent

InTree(p, top) == p = top \/ IsChild(p, top)

Parent(p) == SubSeq(p, 1, Len(p) - 1)
Basename(p) == p[Len(p)]
\* p.relname(parent)
RelName(p, parent) == SubSeq(p, Len(parent) + 1, Len(p))

RECURSIVE CommonParent(_, _)
CommonParent(p, q) ==
  IF p = <<>> \/ q = <<>> \/ Head(p) # Head(q) THEN <<>>
  ELSE <<Head(p)>> \o CommonParent(Tail(p), Tail(q))

\* str.lower on a segment
Lower(s) ==
  CASE s = "A" -> "a"
    [] s = "B" -> "b"
    [] OTHER -> s

\* ------------------------------------------------------------------ documents
\* A link reference (HRef): rel is "abs", "rel" (child, '+') or "float".
Href(rel, names) == [rel |-> rel, names |-> names]
CustomText == [rel |-> "text", names |-> <<>>]
\* A link element: its href and its text (the href it displays, or free text)
Link(h, t) == [type |-> "link", href |-> h, text |-> t]
\* what is left of a link element replaced by its own text
Plain(t) == [type |-> "text", href |-> CustomText, text |-> t]

NoContent == [has |-> FALSE, heading |-> "", elts |-> <<>>]
Doc(heading, elts) == [has |-> TRUE, heading |-> heading, elts |-> elts]

\* ------------------------------------------------------------------ link notation
\* relative_link that compares the names as they are written
relative_link_case_sensitive(source, href) ==
  IF href = source THEN [marker |-> "", names |-> <<Basename(href)>>]
  ELSE IF IsChild(href, source)
    THEN [marker |-> "+", names |-> RelName(href, source)]
  ELSE LET parent == CommonParent(source, href) IN
    IF parent = Root THEN
      IF href[1] \in {source[i] : i \in 1..Len(source)}
        THEN [marker |-> ":", names |-> href]
        ELSE [marker |-> "", names |-> href]
    ELSE IF parent = href THEN [marker |-> "", names |-> <<Basename(href)>>]
    ELSE IF parent = Parent(source)
      THEN [marker |-> "", names |-> RelName(href, parent)]
    ELSE [marker |-> "", names |-> <<Basename(parent)>> \o RelName(href, parent)]

\* Notebook.relative_link: the text of a link from source to href, as the marker
\* it starts with (":", "+" or none) and the names that follow it
relative_link(source, href) ==
  IF href = source THEN [marker |-> "", names |-> <<Basename(href)>>]
  ELSE IF IsChild(href, source)
    THEN [marker |-> "+", names |-> RelName(href, source)]
  ELSE LET parent == CommonParent(source, href) IN
    IF parent = Root THEN
      IF Lower(href[1]) \in {Lower(source[i]) : i \in 1..Len(source)}
        THEN [marker |-> ":", names |-> href]
        ELSE [marker |-> "", names |-> href]
    ELSE IF parent = href THEN [marker |-> "", names |-> <<Basename(href)>>]
    ELSE IF parent = Parent(source)
      THEN [marker |-> "", names |-> RelName(href, parent)]
    ELSE [marker |-> "", names |-> <<Basename(parent)>> \o RelName(href, parent)]

\* HRef.new_from_wiki_link: a leading ':' is absolute, a leading '+' a child
\* link, anything else floating
new_from_wiki_link(text) ==
  Href(CASE text.marker = ":" -> "abs" [] text.marker = "+" -> "rel" [] OTHER -> "float",
       text.names)

\* HRef.to_wiki_link
to_wiki_link(h) ==
  [marker |-> CASE h.rel = "abs" -> ":" [] h.rel = "rel" -> "+" [] OTHER -> "",
   names |-> h.names]

\* link_type(text) = 'page'
IsPageLink(h) == h.rel \in {"abs", "rel", "float"}

\* ------------------------------------------------------------------ resolution
WithAncestors(S) == S \cup UNION {{SubSeq(p, 1, k) : k \in 1..(Len(p) - 1)} : p \in S}

\* floating search: source.parent.child(names), then every ancestor outward to
\* the root; the first candidate that exists wins, else the root level candidate
RECURSIVE FloatFrom(_, _, _, _)
FloatFrom(E, source, names, k) ==
  IF k = 0 THEN names
  ELSE IF (SubSeq(source, 1, k) \o names) \in E THEN SubSeq(source, 1, k) \o names
  ELSE FloatFrom(E, source, names, k - 1)

Resolve(E, source, h) ==
  CASE h.rel = "abs" -> h.names
    [] h.rel = "rel" -> source \o h.names
    [] OTHER -> FloatFrom(E, source, h.names, Len(source) - 1)

\* ------------------------------------------------------------------ index
\* The index holds, for every page, the document it last indexed and, for every
\* page link of that document, the target the link resolved to (a row of the
\* links table).  A target that is no page is a placeholder.
NoEntry == [doc |-> NoContent, tgt |-> <<>>]
IdxPages(idx) == {p \in DOMAIN idx : idx[p].doc.has}

\* position of a path in the order in which the index lists its rows
SegRank(s) ==
  CASE s = "a" -> 1 [] s = "a 1" -> 2 [] s = "a 2" -> 3 [] s = "b" -> 4
    [] s = "c" -> 5 [] s = "p" -> 6 [] s = "q" -> 7 [] OTHER -> 8
RECURSIVE PathLess(_, _)
PathLess(p, q) ==
  IF p = <<>> THEN q # <<>>
  ELSE IF q = <<>> THEN FALSE
  ELSE IF Head(p) # Head(q) THEN SegRank(Head(p)) < SegRank(Head(q))
  ELSE PathLess(Tail(p), Tail(q))

RECURSIVE SortPaths(_)
SortPaths(S) ==
  IF S = {} THEN <<>>
  ELSE LET m == CHOOSE p \in S : \A q \in S \ {p} : PathLess(p, q)
       IN <<m>> \o SortPaths(S \ {m})

PathOrder == SortPaths(Paths)

SeqRange(s) == {s[i] : i \in 1..Len(s)}

\* the hrefs of the page links of a document, in document order
RECURSIVE DocLinks(_, _)
DocLinks(elts, i) ==
  IF i > Len(elts) THEN <<>>
  ELSE IF elts[i].type = "link" /\ IsPageLink(elts[i].href)
    THEN <<elts[i].href>> \o DocLinks(elts, i + 1)
  ELSE DocLinks(elts, i + 1)

\* the rows of the links table: source, href and the target on record
RECURSIVE RowsFrom(_, _)
RowsFrom(idx, i) ==
  IF i > Len(PathOrder) THEN <<>>
  ELSE LET p == PathOrder[i]
           hrefs == DocLinks(idx[p].doc.elts, 1)
       IN [k \in 1..Len(idx[p].tgt) |->
             [source |-> p, href |-> hrefs[k], target |-> idx[p].tgt[k]]]
          \o RowsFrom(idx, i + 1)

IdxLinks(idx) == RowsFrom(idx, 1)

\* the names the index has an entry for: pages, placeholders and the
\* namespaces above them
IdxNames(idx) ==
  WithAncestors(IdxPages(idx) \cup UNION {SeqRange(idx[p].tgt) : p \in DOMAIN idx})

\* PagesView.lookup_by_pagename does not raise IndexNotFoundError
IdxKnows(idx, p) == p \in IdxNames(idx)

\* PagesView.resolve_link
resolve_link(idx, source, h) == Resolve(IdxNames(idx), source, h)

\* LinksView.list_links_section(path): links from path and its descendants
list_links_section(idx, path) ==
  SelectSeq(IdxLinks(idx), LAMBDA l : InTree(l.source, path))

\* LinksView.list_links_section(path, LINK_DIR_BACKWARD): links into the section
list_links_section_backward(idx, path) ==
  SelectSeq(IdxLinks(idx), LAMBDA l : InTree(l.target, path))

\* LinksView.list_floating_links(basename)
list_floating_links(idx, basename) ==
  SelectSeq(IdxLinks(idx), LAMBDA l : l.href.rel = "float" /\ l.href.names[1] = basename)

\* the index reads the links of page p: each resolves among the other entries
IndexRows(idx, p) ==
  With(IdxNames([idx EXCEPT ![p].tgt = <<>>]), LAMBDA E :
    With(DocLinks(idx[p].doc.elts, 1), LAMBDA hrefs :
      [idx EXCEPT ![p].tgt = [k \in 1..Len(hrefs) |-> Resolve(E, p, hrefs[k])]]))

RECURSIVE IndexRowsAll(_, _, _)
IndexRowsAll(idx, S, i) ==
  IF i > Len(PathOrder) THEN idx
  ELSE IndexRowsAll(IF PathOrder[i] \in S THEN IndexRows(idx, PathOrder[i]) ELSE idx,
                    S, i + 1)

\* Index.update(path): (re)index path and what lies below it
index_update(idx, st, path) ==
  LET S == {p \in DOMAIN idx : InTree(p, path)}
  IN IndexRowsAll([p \in DOMAIN idx |->
                     IF p \in S THEN [doc |-> st[p], tgt |-> <<>>] ELSE idx[p]], S, 1)

\* Index.on_store_page
index_on_store_page(idx, st, path) ==
  IndexRows([idx EXCEPT ![path] = [doc |-> st[path], tgt |-> <<>>]], path)

\* Index.on_delete_page: the entries of the section go; a link into it stays on
\* record as a placeholder unless it is floating and matches further out
index_on_delete_page(idx, path) ==
  With([p \in DOMAIN idx |-> IF InTree(p, path) THEN NoEntry ELSE idx[p]], LAMBDA gone :
    With(WithAncestors(IdxPages(gone) \cup
           {t \in UNION {SeqRange(gone[p].tgt) : p \in DOMAIN idx} : ~InTree(t, path)}),
         LAMBDA E :
      [p \in DOMAIN idx |->
         [gone[p] EXCEPT !.tgt =
            [k \in 1..Len(gone[p].tgt) |->
               With(Resolve(E, p, DocLinks(gone[p].doc.elts, 1)[k]), LAMBDA r :
                 IF /\ InTree(gone[p].tgt[k], path)
                    /\ DocLinks(gone[p].doc.elts, 1)[k].rel = "float"
                    /\ r \in E
                   THEN r ELSE gone[p].tgt[k])]]]))

\* the index of a notebook whose pages were all indexed
index_of(st) ==
  IndexRowsAll([p \in DOMAIN st |-> [doc |-> st[p], tgt |-> <<>>]], DOMAIN st, 1)

\* PagesView.create_link
create_link(source, target) == new_from_wiki_link(relative_link(source, target))

\* ------------------------------------------------------------------ store
StoreHasChildren(st, p) == \E q \in DOMAIN st : IsChild(q, p) /\ st[q].has
StoreExists(st, p) == st[p].has \/ StoreHasChildren(st, p)

\* the name a page of the moved subtree gets
Rebase(p, path, newpath) == newpath \o RelName(p, path)

\* store.move_page raises PageExistsError
store_move_rejects(st, path, newpath) ==
  /\ newpath # path
  /\ StoreExists(st, newpath)
  /\ ~IsChild(newpath, path)
  /\ ~IsChild(path, newpath)

\* store.move_page: the page and everything below it change name
store_move_page(st, path, newpath) ==
  LET moved == {p \in DOMAIN st : InTree(p, path) /\ st[p].has}
  IN [q \in DOMAIN st |->
        IF \E p \in moved : Rebase(p, path, newpath) = q
          THEN st[CHOOSE p \in moved : Rebase(p, path, newpath) = q]
        ELSE IF q \in moved THEN NoContent
        ELSE st[q]]

\* store.delete_page / store.trash_page: the page and everything below it go
store_delete_page(st, path) ==
  [q \in DOMAIN st |-> IF InTree(q, path) THEN NoContent ELSE st[q]]

\* ------------------------------------------------------------------ files
\* A folder (Dir): the notebook folder, the document root, the root of the
\* filesystem, or the attachment folder of a page; NoDir is None
FolderOf(kind, page) == [kind |-> kind, page |-> page]
NoDir == FolderOf("none", Root)
NotebookDir == FolderOf("notebook", Root)
DocumentRoot == FolderOf("document_root", Root)
FsRoot == FolderOf("/", Root)

\* File(name) and File((folder, name))
File(folder, name) == [err |-> "", folder |-> folder, name |-> name]
FileError(e) == [err |-> e, folder |-> NoDir, name |-> <<>>]

\* filename.replace('\\', '/')
ReplaceBackslash(f) == [i \in DOMAIN f |-> IF f[i] = "\\" THEN "/" ELSE f[i]]

\* is_win32_path_re.match: a letter, a colon and a slash or backslash
AsciiLetters == {"C", "e", "f", "i", "l", "x"}
is_win32_path(f) ==
  Len(f) >= 3 /\ f[1] \in AsciiLetters /\ f[2] = ":" /\ f[3] \in {"/", "\\"}

\* Notebook.get_attachments_dir(path): the folder of the page
get_attachments_dir(path) == FolderOf("attachments", path)

\* resolve_file that tests the prefixes of the text as given
resolve_file_as_given(filename, path, root, folder) ==
  IF StartsWith(filename, <<"~">>) \/ StartsWith(filename, <<"f", "i", "l", "e", ":", "/">>)
    THEN File(NoDir, filename)
  ELSE IF StartsWith(filename, <<"/">>)
    THEN File(IF root # NoDir THEN root ELSE FsRoot, filename)
  ELSE IF is_win32_path(filename) THEN File(NoDir, <<"/">> \o filename)
  ELSE IF path # Root THEN File(get_attachments_dir(path), filename)
  ELSE IF folder = NoDir THEN FileError("AssertionError")
  ELSE File(folder, filename)

\* Notebook.resolve_file(filename, path) of a notebook with document root
\* root and folder folder; path is Root when no page is given
resolve_file(filename, path, root, folder) ==
  With(ReplaceBackslash(filename), LAMBDA f :
    IF StartsWith(f, <<"~">>) \/ StartsWith(f, <<"f", "i", "l", "e", ":", "/">>)
      THEN File(NoDir, f)
    ELSE IF StartsWith(f, <<"/">>)
      THEN File(IF root # NoDir THEN root ELSE FsRoot, f)
    ELSE IF is_win32_path(f)
      THEN File(NoDir, IF ~StartsWith(f, <<"/">>) THEN <<"/">> \o f ELSE f)
    ELSE IF path # Root THEN File(get_attachments_dir(path), f)
    ELSE IF folder = NoDir THEN FileError("AssertionError")
    ELSE File(folder, f))

\* ------------------------------------------------------------------ state
VARIABLES
  store,          \* the store: page name -> document
  index,          \* the index: page name -> document as last indexed
  uptodate,       \* index.probably_uptodate
  disable_trash,  \* config['Notebook']['disable_trash']
  cache,          \* _page_cache: name (characters) -> page object
  pages,          \* the page objects handed to callers, by identity
  log,            \* what the last call emitted and called, in order
  last,           \* the last call: its arguments and its outcome
  nops,           \* calls made so far
  origin,         \* the store as the run started with it
  writes,         \* the writes the store runs in the background
  dir,            \* self.dir: the notebook folder, if any
  document_root   \* self.document_root, if any

vars ==
  <<store, index, uptodate, disable_trash, cache, pages, log, last, nops, origin, writes,
    dir, document_root>>

\* an event of the log: a signal emitted or a collaborator called
Ev(name, a, b) == [ev |-> name, a |-> a, b |-> b]

Call(op, path, newpath, ul, h, result) ==
  [op |-> op, path |-> path, newpath |-> newpath, ul |-> ul, uh |-> FALSE, h |-> h,
   result |-> result]

\* a page object (StoreNodePage): loaded/tree is the parse tree set on the
\* object, held tells whether a caller still refers to it
PageObject(path, haschildren) ==
  [path |-> path, valid |-> TRUE, modified |-> FALSE, held |-> TRUE,
   loaded |-> FALSE, tree |-> NoContent, haschildren |-> haschildren]

\* the state a handler works on: err is the exception that ended it, if any
World ==
  [store |-> store, index |-> index, cache |-> cache, pages |-> pages,
   writes |-> writes, log |-> <<>>, err |-> ""]

Emit(w, name, a, b) == [w EXCEPT !.log = Append(@, Ev(name, a, b))]
Raise(w, e) == [w EXCEPT !.err = e]

Without(c, name) == [k \in DOMAIN c \ {name} |-> c[k]]

\* get_page with a cache that finds nothing
CachedNever(w, path) == 0

\* the cached page object get_page returns for path, 0 when it builds a new one
Cached(w, path) ==
  IF Name(path) \in DOMAIN w.cache /\ w.pages[w.cache[Name(path)]].valid
    THEN w.cache[Name(path)] ELSE 0

\* page.get_parsetree() of the object get_page returns
get_parsetree(w, path) ==
  LET h == Cached(w, path)
  IN IF h # 0 /\ w.pages[h].loaded THEN w.pages[h].tree ELSE w.store[path]

\* flush_page_cache that drops the cache entries and leaves the objects valid
RECURSIVE FlushNamesKeepValid(_, _)
FlushNamesKeepValid(w, names) ==
  IF names = <<>> THEN w
  ELSE LET name == Head(names) IN
    IF name \notin DOMAIN w.cache THEN FlushNamesKeepValid(w, Tail(names))
    ELSE IF w.pages[w.cache[name]].modified THEN Raise(w, "AssertionError")
    ELSE FlushNamesKeepValid([w EXCEPT !.cache = Without(w.cache, name)], Tail(names))

\* flush_page_cache that marks the page invalid before it tests page.modified
RECURSIVE FlushNamesInvalidFirst(_, _)
FlushNamesInvalidFirst(w, names) ==
  IF names = <<>> THEN w
  ELSE LET name == Head(names) IN
    IF name \notin DOMAIN w.cache THEN FlushNamesInvalidFirst(w, Tail(names))
    ELSE LET h == w.cache[name] IN
      IF w.pages[h].modified THEN Raise([w EXCEPT !.pages[h].valid = FALSE], "AssertionError")
      ELSE FlushNamesInvalidFirst([w EXCEPT !.pages[h].valid = FALSE,
                                            !.cache = Without(w.cache, name)], Tail(names))

\* Notebook.flush_page_cache over names in the order given
RECURSIVE FlushNames(_, _)
FlushNames(w, names) ==
  IF names = <<>> THEN w
  ELSE LET name == Head(names) IN
    IF name \notin DOMAIN w.cache THEN FlushNames(w, Tail(names))
    ELSE LET h == w.cache[name] IN
      IF w.pages[h].modified THEN Raise(w, "AssertionError")
      ELSE FlushNames([w EXCEPT !.pages[h].valid = FALSE,
                                !.cache = Without(w.cache, name)], Tail(names))

\* names taken for names below path when they only start with the name of path
FlushOrdersStartsWith(c, path) ==
  LET below == {k \in DOMAIN c : k # Name(path) /\ StartsWith(k, Name(path))}
  IN {f \in [1..Cardinality(below) -> below] :
        \A i, j \in 1..Cardinality(below) : i # j => f[i] # f[j]}

\* the orders in which the cache can list the names below path
FlushOrders(c, path) ==
  LET ns == Name(path) \o <<":">>
      below == {k \in DOMAIN c : StartsWith(k, ns)}
  IN {f \in [1..Cardinality(below) -> below] :
        \A i, j \in 1..Cardinality(below) : i # j => f[i] # f[j]}

flush_page_cache(w, path, order) ==
  FlushNames(Emit(w, "flush_page_cache", path, Root), <<Name(path)>> \o order)

\* store_page without the assertion on page.valid
store_page_unchecked(w, path, h, tree) ==
  LET w1 == Emit(w, "store-page", path, Root)
      st == [w1.store EXCEPT ![path] = tree]
      w2 == [Emit(w1, "page._store", path, Root) EXCEPT
               !.store = st,
               !.pages = IF h = 0 THEN @ ELSE [@ EXCEPT ![h].modified = FALSE]]
      w3 == [Emit(w2, "index.on_store_page", path, Root) EXCEPT
               !.index = index_on_store_page(@, st, path)]
  IN Emit(w3, "stored-page", path, Root)

\* Notebook.store_page(page) for the page object h of path (0: an object no
\* caller holds) whose parse tree is tree
store_page(w, path, h, tree) ==
  IF h # 0 /\ ~w.pages[h].valid THEN Raise(w, "AssertionError")
  ELSE
    LET w1 == Emit(w, "store-page", path, Root)
        st == [w1.store EXCEPT ![path] = tree]
        w2 == [Emit(w1, "page._store", path, Root) EXCEPT
                 !.store = st,
                 !.pages = IF h = 0 THEN @ ELSE [@ EXCEPT ![h].modified = FALSE]]
        w3 == [Emit(w2, "index.on_store_page", path, Root) EXCEPT
                 !.index = index_on_store_page(@, st, path)]
    IN Emit(w3, "stored-page", path, Root)

\* store.store_page_async(page): a store that writes in the background starts
\* the write and returns its thread; any other store writes at once and
\* returns None
store_store_page_async(w, path, tree, background) ==
  IF background
    THEN [w EXCEPT !.writes = Append(@, [path |-> path, tree |-> tree])]
  ELSE [w EXCEPT !.store = [@ EXCEPT ![path] = tree]]

\* store_page_async that waits for the write before it emits stored-page
store_page_async_waiting(w, path, h, tree, background) ==
  IF ~w.pages[h].valid THEN Raise(w, "AssertionError")
  ELSE Emit([store_store_page_async(Emit(Emit(w, "store-page", path, Root),
                                         "store.store_page_async", path, Root),
                                    path, tree, FALSE)
               EXCEPT !.pages = [@ EXCEPT ![h].modified = FALSE]],
            "stored-page", path, Root)

\* Notebook.store_page_async(page) for the page object h of path whose parse
\* tree is tree
store_page_async(w, path, h, tree, background) ==
  IF ~w.pages[h].valid THEN Raise(w, "AssertionError")
  ELSE Emit([store_store_page_async(Emit(Emit(w, "store-page", path, Root),
                                         "store.store_page_async", path, Root),
                                    path, tree, background)
               EXCEPT !.pages = [@ EXCEPT ![h].modified = FALSE]],
            "stored-page", path, Root)

\* store_page that goes on after a handler of store-page or the write raised
store_page_failing_on(w, path, h, tree, fail) ==
  IF h # 0 /\ ~w.pages[h].valid THEN Raise(w, "AssertionError")
  ELSE Raise(store_page(w, path, h, tree), "Error")

\* Notebook.store_page(page) where a handler of store-page (fail is
\* "store-page") or the write of the store (fail is "page._store") raises
store_page_failing(w, path, h, tree, fail) ==
  IF h # 0 /\ ~w.pages[h].valid THEN Raise(w, "AssertionError")
  ELSE IF fail = "store-page" THEN Raise(Emit(w, "store-page", path, Root), "Error")
  ELSE Raise(Emit(Emit(w, "store-page", path, Root), "page._store", path, Root), "Error")

\* page.set_parsetree(tree) followed by store_page(page), as the repair passes do
\* on the object get_page(path) gave them
set_and_store(w, path, tree) ==
  LET h == Cached(w, path)
      w1 == IF h = 0 THEN w
            ELSE [w EXCEPT !.pages[h].tree = tree, !.pages[h].loaded = TRUE,
                           !.pages[h].modified = TRUE]
  IN store_page(w1, path, h, tree)

\* ------------------------------------------------------------------ link repair
\* Notebook._update_link_tag: absolute links stay absolute, the text of the
\* element follows the href when it showed the href
_update_link_tag(elt, source, target) ==
  LET newhref == IF elt.href.rel = "abs" THEN Href("abs", target)
                 ELSE create_link(source, target)
      h == new_from_wiki_link(to_wiki_link(newhref))
  IN [elt EXCEPT !.href = h, !.text = IF elt.text = elt.href THEN h ELSE @]

\* replacefunc of Notebook._update_moved_page
moved_page_elt(idx, path, oldpath, elt) ==
  IF elt.type # "link" \/ ~IsPageLink(elt.href) THEN elt
  ELSE IF elt.href.rel = "float" THEN
    LET newtarget == resolve_link(idx, path, elt.href)
        oldtarget == resolve_link(idx, oldpath, elt.href)
    IN IF newtarget # oldtarget THEN _update_link_tag(elt, path, oldtarget) ELSE elt
  ELSE elt

\* Notebook._update_moved_page
_update_moved_page(w, path, oldpath) ==
  LET tree == get_parsetree(w, path) IN
    IF ~tree.has THEN w
    ELSE LET elts == [i \in DOMAIN tree.elts |->
                        moved_page_elt(w.index, path, oldpath, tree.elts[i])]
         IN set_and_store(Emit(w, "_update_moved_page", path, oldpath), path,
                          [tree EXCEPT !.elts = elts])

\* Notebook._update_links_in_moved_page: the loop over the links of the new section
RECURSIVE OutgoingLoop(_, _, _, _, _)
OutgoingLoop(w, links, i, oldtarget, newtarget) ==
  IF i > Len(links) \/ w.err # "" THEN w
  ELSE LET l == links[i] IN
    IF ~InTree(l.target, newtarget)
      THEN OutgoingLoop(
             _update_moved_page(w, l.source,
               IF l.source = newtarget THEN oldtarget
               ELSE oldtarget \o RelName(l.source, newtarget)),
             links, i + 1, oldtarget, newtarget)
    ELSE OutgoingLoop(w, links, i + 1, oldtarget, newtarget)

_update_links_in_moved_page(w, oldtarget, newtarget) ==
  Then(OutgoingLoop(Emit(w, "_update_links_in_moved_page", oldtarget, newtarget),
                    list_links_section(w.index, newtarget), 1, oldtarget, newtarget),
       LAMBDA w1 : Emit(w1, "_update_links_in_moved_page.return", oldtarget, newtarget))

\* replacefunc of Notebook._move_links_in_page: the element it leaves, and the
\* exception it raises if any
move_links_elt(idx, page, oldtarget, newtarget, elt) ==
  IF elt.type # "link" \/ ~IsPageLink(elt.href) THEN [elt |-> elt, err |-> ""]
  ELSE LET target == resolve_link(idx, page, elt.href) IN
    IF InTree(target, newtarget) THEN [elt |-> elt, err |-> ""]
    ELSE IF target = oldtarget
      THEN [elt |-> _update_link_tag(elt, page, newtarget), err |-> ""]
    ELSE IF IsChild(target, oldtarget)
      THEN [elt |-> _update_link_tag(elt, page, newtarget \o RelName(target, oldtarget)),
            err |-> ""]
    ELSE IF /\ elt.href.rel = "float"
            /\ elt.href.names[1] = Basename(newtarget)
            /\ IsChild(page, Parent(oldtarget))
            /\ ~IsChild(target, Parent(oldtarget))
      THEN IF elt.href.names = <<Basename(newtarget)>>
             THEN [elt |-> _update_link_tag(elt, page, newtarget), err |-> ""]
           \* href.parts[1:] subscripts the method HRef.parts
           ELSE [elt |-> elt, err |-> "TypeError"]
    ELSE [elt |-> elt, err |-> ""]

\* Notebook._move_links_in_page
_move_links_in_page(w, path, oldtarget, newtarget) ==
  LET tree == get_parsetree(w, path) IN
    IF ~tree.has THEN w
    ELSE With([i \in DOMAIN tree.elts |->
                 move_links_elt(w.index, path, oldtarget, newtarget, tree.elts[i])],
              LAMBDA r :
           IF \E i \in DOMAIN r : r[i].err # ""
             THEN Raise(Emit(w, "_move_links_in_page", path, oldtarget),
                        r[CHOOSE i \in DOMAIN r : r[i].err # ""].err)
           ELSE set_and_store(Emit(w, "_move_links_in_page", path, oldtarget), path,
                              [tree EXCEPT !.elts = [i \in DOMAIN r |-> r[i].elt]]))

\* the loops of Notebook._update_links_to_moved_page: ws is the world and the
\* set seen; floating tells which of the two loops runs
RECURSIVE IncomingLoop(_, _, _, _, _, _)
IncomingLoop(ws, links, i, oldtarget, newtarget, floating) ==
  IF i > Len(links) \/ ws.w.err # "" THEN ws
  ELSE LET l == links[i]
           parent == Parent(oldtarget)
           take == /\ l.source \notin ws.seen
                   /\ floating =>
                        /\ IsChild(l.source, parent)
                        /\ ~(IsChild(l.target, parent) \/ InTree(l.target, newtarget))
       IN IncomingLoop(
            IF take THEN [w |-> _move_links_in_page(ws.w, l.source, oldtarget, newtarget),
                          seen |-> ws.seen \cup {l.source}]
            ELSE ws,
            links, i + 1, oldtarget, newtarget, floating)

_update_links_to_moved_page(w, oldtarget, newtarget) ==
  With([w |-> Emit(w, "_update_links_to_moved_page", oldtarget, newtarget), seen |-> {}],
       LAMBDA s0 :
    With(IF IdxKnows(s0.w.index, oldtarget)
           THEN IncomingLoop(s0, list_links_section_backward(s0.w.index, oldtarget), 1,
                             oldtarget, newtarget, FALSE)
         ELSE s0,
         LAMBDA s1 :
      IF s1.w.err # "" THEN s1.w
      ELSE Then(IncomingLoop(s1, list_floating_links(s1.w.index, Basename(oldtarget)), 1,
                             oldtarget, newtarget, TRUE).w,
                LAMBDA w2 :
                  Emit(w2, "_update_links_to_moved_page.return", oldtarget, newtarget))))

\* ------------------------------------------------------------------ handlers
\* move_page without the test of the index
IndexStaleIgnored(update_links) == FALSE

\* move_page: update_links and not self.index.probably_uptodate
IndexStale(update_links) == update_links /\ ~uptodate

\* move_page that swallows the error of the store and goes on
move_page_store_swallowing(w, path, newpath) ==
  IF store_move_rejects(w.store, path, newpath)
    THEN Emit(w, "store.move_page", path, newpath)
  ELSE [Emit(w, "store.move_page", path, newpath) EXCEPT
          !.store = store_move_page(@, path, newpath)]

\* move_page: self.store.move_page(path, newpath)
move_page_store(w, path, newpath) ==
  IF store_move_rejects(w.store, path, newpath)
    THEN Raise(Emit(w, "store.move_page", path, newpath), "PageExistsError")
  ELSE [Emit(w, "store.move_page", path, newpath) EXCEPT
          !.store = store_move_page(@, path, newpath)]

\* move_page: the index forgets the old section and indexes the new one
move_page_index(w, path, newpath) ==
  With(IF ~(newpath = path \/ IsChild(newpath, path))
         THEN [Emit(w, "index.on_delete_page", path, Root) EXCEPT
                 !.index = index_on_delete_page(@, path)]
       ELSE w,
       LAMBDA w3 : [Emit(w3, "index.update", newpath, Root) EXCEPT
                      !.index = index_update(@, w3.store, newpath)])

\* move_page that repairs the links whatever update_links says
move_page_links_always(w, path, newpath, update_links) ==
  Then(_update_links_in_moved_page(w, path, newpath),
       LAMBDA w6 : _update_links_to_moved_page(w6, path, newpath))

\* move_page that repairs the links to the moved page first
move_page_links_incoming_first(w, path, newpath, update_links) ==
  IF ~update_links THEN w
  ELSE Then(_update_links_to_moved_page(w, path, newpath),
            LAMBDA w6 : _update_links_in_moved_page(w6, path, newpath))

\* move_page: what follows the flush of the cache
move_page_links(w, path, newpath, update_links) ==
  IF ~update_links THEN w
  ELSE Then(_update_links_in_moved_page(w, path, newpath),
            LAMBDA w6 : _update_links_to_moved_page(w6, path, newpath))

\* move_page that puts the store and the index back when a later step raises
move_page_body_rollback(w, path, newpath, update_links, order) ==
  IF IndexStale(update_links) THEN Raise(w, "IndexNotUptodateError")
  ELSE With(Then(move_page_store(w, path, newpath), LAMBDA w2 :
              Then(flush_page_cache(move_page_index(w2, path, newpath), path, order),
                   LAMBDA w5 : move_page_links(w5, path, newpath, update_links))),
            LAMBDA r : IF r.err \in {"", "PageExistsError"} THEN r
                       ELSE [r EXCEPT !.store = w.store, !.index = w.index])

\* Notebook.move_page
move_page_body(w, path, newpath, update_links, order) ==
  IF IndexStale(update_links) THEN Raise(w, "IndexNotUptodateError")
  ELSE Then(move_page_store(w, path, newpath), LAMBDA w2 :
         Then(flush_page_cache(move_page_index(w2, path, newpath), path, order),
              LAMBDA w5 : move_page_links(w5, path, newpath, update_links)))

\* rename_page that sets the heading on the page object and does not store it
rename_heading_unsaved(w, newpath, newbasename) ==
  LET tree == get_parsetree(w, newpath)
      h == Cached(w, newpath)
  IN IF ~tree.has \/ h = 0 THEN w
     ELSE [w EXCEPT !.pages[h].tree = [tree EXCEPT !.heading = newbasename],
                    !.pages[h].loaded = TRUE, !.pages[h].modified = TRUE]

\* Notebook.rename_page: what follows the move when update_heading is set
rename_heading(w, newpath, newbasename) ==
  LET tree == get_parsetree(w, newpath)
  IN IF ~tree.has THEN w
     ELSE set_and_store(w, newpath, [tree EXCEPT !.heading = newbasename])

\* replacefunc that tests only hrefpath == path
remove_links_elt_same(idx, page, path, elt) ==
  IF elt.type # "link" \/ ~IsPageLink(elt.href) THEN elt
  ELSE IF resolve_link(idx, page, elt.href) = path THEN Plain(elt.text)
  ELSE elt

\* replacefunc of Notebook._remove_links_in_page
remove_links_elt(idx, page, path, elt) ==
  IF elt.type # "link" \/ ~IsPageLink(elt.href) THEN elt
  ELSE IF InTree(resolve_link(idx, page, elt.href), path) THEN Plain(elt.text)
  ELSE elt

\* Notebook._remove_links_in_page followed by store_page, for one page
_remove_links_in_page(w, page, path) ==
  LET tree == get_parsetree(w, page) IN
    IF ~tree.has THEN store_page(w, page, Cached(w, page), tree)
    ELSE set_and_store(Emit(w, "_remove_links_in_page", page, path), page,
           [tree EXCEPT !.elts = [i \in DOMAIN tree.elts |->
                                    remove_links_elt(w.index, page, path, tree.elts[i])]])

RECURSIVE RemoveLoop(_, _, _, _)
RemoveLoop(w, sources, i, path) ==
  IF i > Len(sources) \/ w.err # "" THEN w
  ELSE RemoveLoop(_remove_links_in_page(w, sources[i], path), sources, i + 1, path)

\* the value a handler returns, with the world it leaves
Ret(w, value) == [w |-> w, value |-> IF w.err # "" THEN w.err ELSE value]

\* the pages with a link into the section of path
BackSources(idx, path) ==
  {l.source : l \in SeqRange(list_links_section_backward(idx, path))}

\* Notebook._delete_page: order lists the cached names below path as the cache
\* yields them; sources lists the linking pages as the set yields them
_delete_page(w, path, update_links, trash, order, sources) ==
  With(flush_page_cache(
         [Emit(Emit(w, "delete-page", path, Root),
               IF trash THEN "store.trash_page" ELSE "store.delete_page", path, Root)
            EXCEPT !.store = store_delete_page(@, path)],
         path, order),
       LAMBDA w3 :
    IF w3.err # "" THEN Ret(w3, "None")
    ELSE With([Emit(w3, "index.on_delete_page", path, Root) EXCEPT
                 !.index = index_on_delete_page(@, path)],
              LAMBDA w4 :
      IF ~update_links THEN Ret(w4, "None")
      ELSE IF ~IdxKnows(w4.index, path) THEN Ret(w4, "None")
      ELSE With(RemoveLoop(w4, sources, 1, path), LAMBDA w5 :
             IF w5.err # "" THEN Ret(w5, "None")
             ELSE Ret(Emit(w5, "deleted-page", path, Root),
                      IF StoreExists(w.store, path) THEN "True" ELSE "False"))))

\* the orders in which a set can be iterated
Orders(S) ==
  {f \in [1..Cardinality(S) -> S] : \A i, j \in 1..Cardinality(S) : i # j => f[i] # f[j]}

\* the linking pages _delete_page will visit
DeleteSources(st, idx, path) ==
  BackSources(index_on_delete_page(idx, path), path)

\* ------------------------------------------------------------------ calls
NoCall == Call("none", Root, Root, FALSE, 0, "None")

\* a handler ran and left world w
Done(w, call) ==
  /\ store' = w.store
  /\ index' = w.index
  /\ cache' = w.cache
  /\ pages' = w.pages
  /\ writes' = w.writes
  /\ log' = w.log
  /\ last' = call
  /\ nops' = nops - 1
  /\ UNCHANGED <<uptodate, disable_trash, origin, dir, document_root>>

\* a handler left world w: the call raised w.err, or returned value
Returned(w, call, value) ==
  Done(w, [call EXCEPT !.result = IF w.err # "" THEN w.err ELSE value])

\* _delete_page left r, world and value
ReturnedValue(r, call) == Done(r.w, [call EXCEPT !.result = r.value])

\* indexpath.haschildren or node.haschildren, as get_page reads them
HasChildren(st, idx, path) ==
  \/ StoreHasChildren(st, path)
  \/ \E n \in IdxNames(idx) : IsChild(n, path)

\* Notebook.get_page for a caller who keeps the page object: the world it
\* leaves; the object returned is the one the cache then holds for path
get_page_body(w, path) ==
  IF Cached(w, path) # 0 THEN Emit(w, "get_page", path, Root)
  ELSE [Emit(Emit(w, "get_page", path, Root), "store.get_node", path, Root) EXCEPT
          !.pages = Append(@, PageObject(path, HasChildren(w.store, w.index, path))),
          !.cache = (Name(path) :> (Len(w.pages) + 1)) @@ Without(@, Name(path))]

\* a page object can be built within the bound of the model
Room(path) == Cached(World, path) # 0 \/ Len(pages) < MaxHandles

\* Notebook.get_page, called by a caller who keeps the page object
get_page(path) ==
  /\ nops > 0
  /\ Room(path)
  /\ With(get_page_body(World, path), LAMBDA w :
          Done(w, Call("get_page", path, Root, FALSE, w.cache[Name(path)], "page")))

\* the i-th name get_new_page tries: base, then base + ' %i' % i
Numbered == <<"a 1", "a 2">>
\* a loop that numbers the names from 2 on
NumberedNameFromTwo(path, i) ==
  IF i = 0 THEN path ELSE Parent(path) \o <<Numbered[IF i < Len(Numbered) THEN i + 1 ELSE i]>>

NumberedName(path, i) == IF i = 0 THEN path ELSE Parent(path) \o <<Numbered[i]>>

\* page.hascontent or page.haschildren of the object get_page gives for path
Taken(w, path) ==
  IF Cached(w, path) # 0
    THEN get_parsetree(w, path).has \/ w.pages[Cached(w, path)].haschildren
  ELSE w.store[path].has \/ HasChildren(w.store, w.index, path)

\* get_new_page: the calls of get_page on the names that are taken; the
\* objects it builds for them are dropped at once
RECURSIVE TriedNames(_, _, _)
TriedNames(w, path, i) ==
  IF i = 0 THEN w
  ELSE Emit(TriedNames(w, path, i - 1), "get_page", NumberedName(path, i - 1), Root)

\* Notebook.get_new_page, called by a caller who keeps the page object; i is
\* the number the loop stops at
get_new_page(path, i) ==
  /\ nops > 0
  /\ Basename(path) = "a"
  /\ i <= Len(Numbered)
  /\ \A j \in 0..(i - 1) : Taken(World, NumberedName(path, j))
  /\ ~Taken(World, NumberedName(path, i))
  /\ Room(NumberedName(path, i))
  /\ With(get_page_body(TriedNames(World, path, i), NumberedName(path, i)), LAMBDA w :
          Done(w, Call("get_new_page", path, NumberedName(path, i), FALSE,
                       w.cache[Name(NumberedName(path, i))], "page")))

\* a caller lets go of a page object: the weak reference of the cache dies
DeadPage ==
  [path |-> Root, valid |-> FALSE, modified |-> FALSE, held |-> FALSE,
   loaded |-> FALSE, tree |-> NoContent, haschildren |-> FALSE]

release(h) ==
  /\ nops > 0
  /\ pages[h].held
  /\ LET name == Name(pages[h].path)
         w == [World EXCEPT
                 !.cache = IF name \in DOMAIN cache /\ cache[name] = h
                             THEN Without(cache, name) ELSE cache,
                 !.pages = [pages EXCEPT ![h] = DeadPage]]
     IN Done(w, Call("release", Root, Root, FALSE, h, "None"))

\* page.set_parsetree(tree), called by a caller on a page object it holds
set_parsetree(h, tree) ==
  /\ nops > 0
  /\ pages[h].held
  /\ pages[h].valid
  /\ Done([World EXCEPT !.pages = [pages EXCEPT ![h].tree = tree, ![h].loaded = TRUE,
                                                ![h].modified = TRUE]],
          Call("set_parsetree", pages[h].path, Root, FALSE, h, "None"))

\* Notebook.store_page, called by a caller on a page object it holds
store_page_call(h) ==
  /\ nops > 0
  /\ pages[h].held
  /\ LET path == pages[h].path
         tree == IF pages[h].loaded THEN pages[h].tree ELSE store[path]
     IN Returned(store_page(World, path, h, tree),
                 Call("store_page", path, Root, FALSE, h, ""), "None")

\* Notebook.store_page, called on a page object when a handler of store-page
\* or the write of the store raises
store_page_call_failing(h, fail) ==
  /\ nops > 0
  /\ pages[h].held
  /\ LET path == pages[h].path
         tree == IF pages[h].loaded THEN pages[h].tree ELSE store[path]
     IN Returned(store_page_failing(World, path, h, tree, fail),
                 Call("store_page", path, Root, FALSE, h, ""), "None")

\* Notebook.store_page_async, called by a caller on a page object it holds;
\* background tells whether the store writes in the background
store_page_async_call(h, background) ==
  /\ nops > 0
  /\ pages[h].held
  /\ LET path == pages[h].path
         tree == IF pages[h].loaded THEN pages[h].tree ELSE store[path]
     IN Returned(store_page_async(World, path, h, tree, background),
                 Call("store_page_async", path, Root, FALSE, h, ""),
                 IF background THEN "FunctionThread" ELSE "None")

\* a background write of the store comes to its end
write_done ==
  \E i \in DOMAIN writes :
    /\ store' = [store EXCEPT ![writes[i].path] = writes[i].tree]
    /\ writes' = [j \in 1..(Len(writes) - 1) |-> IF j < i THEN writes[j] ELSE writes[j + 1]]
    /\ log' = <<>>
    /\ last' = Call("write_done", writes[i].path, Root, FALSE, 0, "None")
    /\ UNCHANGED <<index, uptodate, disable_trash, cache, pages, nops, origin, dir,
                 document_root>>

\* Notebook.flush_page_cache
flush_page_cache_call(path) ==
  /\ nops > 0
  /\ \E order \in FlushOrders(cache, path) :
       Returned(flush_page_cache(World, path, order),
                Call("flush_page_cache", path, Root, FALSE, 0, ""), "None")

\* the moved section keeps within the names of the model
Fits(path, newpath) ==
  /\ newpath \in Paths
  /\ \A p \in Paths : InTree(p, path) /\ store[p].has => Rebase(p, path, newpath) \in Paths

\* Notebook.move_page
move_page(path, newpath, update_links) ==
  /\ nops > 0
  /\ Fits(path, newpath)
  /\ \E order \in FlushOrders(cache, path) :
       Returned(move_page_body(World, path, newpath, update_links, order),
                Call("move_page", path, newpath, update_links, 0, ""), "None")

\* Notebook.rename_page
rename_page(path, newbasename, update_heading, update_links) ==
  /\ nops > 0
  /\ LET newpath == Parent(path) \o <<newbasename>> IN
       /\ Fits(path, newpath)
       /\ \E order \in FlushOrders(cache, path) :
            Returned(Then(move_page_body(World, path, newpath, update_links, order),
                          LAMBDA w : IF update_heading
                                       THEN rename_heading(w, newpath, newbasename)
                                     ELSE w),
                     [Call("rename_page", path, newpath, update_links, 0, "") EXCEPT
                        !.uh = update_heading],
                     "newpath")

\* Notebook.delete_page
delete_page(path, update_links) ==
  /\ nops > 0
  /\ \E order \in FlushOrders(cache, path) :
     \E sources \in Orders(DeleteSources(store, index, path)) :
       ReturnedValue(_delete_page(World, path, update_links, FALSE, order, sources),
                     Call("delete_page", path, Root, update_links, 0, ""))

\* trash_page without the test of the configuration
TrashDisabledIgnored == FALSE

\* trash_page: self.config['Notebook']['disable_trash']
TrashDisabled == disable_trash

\* Notebook.trash_page: supported tells whether the store can trash
trash_page(path, update_links, supported) ==
  /\ nops > 0
  /\ IF TrashDisabled
       THEN Done(World, Call("trash_page", path, Root, update_links, 0,
                             "TrashNotSupportedError"))
     ELSE IF ~supported
       THEN Done(Emit(Emit(World, "delete-page", path, Root), "store.trash_page", path, Root),
                 Call("trash_page", path, Root, update_links, 0, "TrashNotSupportedError"))
     ELSE \E order \in FlushOrders(cache, path) :
          \E sources \in Orders(DeleteSources(store, index, path)) :
            ReturnedValue(_delete_page(World, path, update_links, TRUE, order, sources),
                          Call("trash_page", path, Root, update_links, 0, ""))

\* Index.update(): the whole notebook is indexed again
index_update_all ==
  /\ nops > 0
  /\ ~uptodate
  /\ index' = index_of(store)
  /\ uptodate' = TRUE
  /\ log' = <<Ev("index.update", Root, Root)>>
  /\ last' = Call("index.update", Root, Root, FALSE, 0, "None")
  /\ nops' = nops - 1
  /\ UNCHANGED <<store, disable_trash, cache, pages, origin, writes, dir, document_root>>

\* ------------------------------------------------------------------ notebooks
LinkNames == {<<"a">>, <<"b">>, <<"p", "a">>, <<"q", "a">>, <<"a", "b">>}
Hrefs == {Href(rel, names) : rel \in {"abs", "rel", "float"}, names \in LinkNames}
Links ==
  {Link(h, h) : h \in Hrefs}
  \cup {Link(h, CustomText) : h \in {g \in Hrefs : g.rel = "float" /\ Len(g.names) = 1}}
PlainDoc(p) == Doc(Basename(p), <<>>)

\* the notebook with pages P, of which src (if in P) holds the link lnk
StoreOf(P, src, lnk) ==
  [p \in Paths |-> IF p \notin P THEN NoContent
                   ELSE IF p = src THEN Doc(Basename(p), <<lnk>>)
                   ELSE PlainDoc(p)]

PageSets == {P \in SUBSET BasePaths : Cardinality(P) <= MaxPages}

InitStores ==
  {StoreOf(P, Root, CustomText) : P \in PageSets}
  \cup UNION {{StoreOf(P, src, lnk) : src \in P, lnk \in Links} : P \in PageSets}

EmptyIndex == [p \in Paths |-> NoEntry]

\* a notebook with links, and one call made on it
Init ==
  /\ store \in InitStores
  /\ uptodate = TRUE
  /\ index = index_of(store)
  /\ disable_trash = FALSE
  /\ cache = <<>>
  /\ pages = <<>>
  /\ log = <<>>
  /\ last = NoCall
  /\ nops = MaxCalls
  /\ origin = store
  /\ writes = <<>>
  /\ dir = NotebookDir
  /\ document_root = NoDir

Renames == {"a", "b", "c"}

Next ==
  \/ \E path, newpath \in BasePaths, ul \in BOOLEAN : move_page(path, newpath, ul)
  \/ \E path \in BasePaths, b \in Renames, uh, ul \in BOOLEAN : rename_page(path, b, uh, ul)
  \/ \E path \in BasePaths, ul \in BOOLEAN : delete_page(path, ul)
  \/ \E path \in BasePaths, ul \in BOOLEAN : trash_page(path, ul, TRUE)

Spec == Init /\ [][Next]_vars

\* a small notebook, and a sequence of calls made on it by callers who keep
\* the page objects they get
CachePaths == {<<"a">>, <<"p">>, <<"p", "a">>}
CacheStores ==
  {StoreOf(P, Root, CustomText) : P \in {{<<"p">>, <<"p", "a">>}, {<<"a">>, <<"p", "a">>},
                                          {<<"a">>, <<"a 1">>}}}

InitCache ==
  /\ store \in CacheStores
  /\ \E f \in {<<TRUE, FALSE>>, <<FALSE, TRUE>>} : uptodate = f[1] /\ disable_trash = f[2]
  /\ index = IF uptodate THEN index_of(store) ELSE EmptyIndex
  /\ cache = <<>>
  /\ pages = <<>>
  /\ log = <<>>
  /\ last = NoCall
  /\ nops = MaxOps
  /\ origin = store
  /\ writes = <<>>
  /\ dir = NotebookDir
  /\ document_root = NoDir

NextCache ==
  \/ \E path \in CachePaths : get_page(path)
  \/ \E i \in 0..MaxNumber : get_new_page(<<"a">>, i)
  \/ \E h \in DOMAIN pages : release(h)
  \/ \E h \in DOMAIN pages : set_parsetree(h, PlainDoc(<<"c">>))
  \/ \E h \in DOMAIN pages : store_page_call(h)
  \/ \E h \in DOMAIN pages, fail \in {"store-page", "page._store"} :
       store_page_call_failing(h, fail)
  \/ \E h \in DOMAIN pages, background \in BOOLEAN : store_page_async_call(h, background)
  \/ write_done
  \/ \E path \in CachePaths : flush_page_cache_call(path)
  \/ \E path, newpath \in CachePaths, ul \in BOOLEAN : move_page(path, newpath, ul)
  \/ \E path \in CachePaths, ul \in BOOLEAN : rename_page(path, "b", TRUE, ul)
  \/ \E path \in CachePaths, ul \in BOOLEAN : delete_page(path, ul)
  \/ \E path \in CachePaths, sup \in BOOLEAN : trash_page(path, TRUE, sup)
  \/ index_update_all

SpecCache == InitCache /\ [][NextCache]_vars

\* Notebook.relative_link called for a link from source to href
relative_link_call(source, href) ==
  /\ nops > 0
  /\ last' = [Call("relative_link", source, href, FALSE, 0, "") EXCEPT
                !.result = relative_link(source, href)]
  /\ log' = <<>>
  /\ nops' = nops - 1
  /\ UNCHANGED <<store, index, uptodate, disable_trash, cache, pages, origin, writes,
               dir, document_root>>

\* a notebook with pages and placeholders, and one relative_link call for two
\* of its pages
NextLink ==
  \E source, href \in BasePaths :
    /\ store[source].has
    /\ store[href].has
    /\ relative_link_call(source, href)

SpecLink == Init /\ [][NextLink]_vars

\* relative_link called for any two names, up to three calls
NotationPaths ==
  {<<"a">>, <<"A">>, <<"p">>, <<"q">>, <<"p", "a">>, <<"p", "A">>, <<"p", "b">>, <<"q", "a">>,
   <<"p", "a", "b">>, <<"p", "b", "a">>, <<"p", "a", "p">>, <<"q", "p", "a">>}

NextNotation == \E source, href \in NotationPaths : relative_link_call(source, href)

SpecNotation == InitCache /\ [][NextNotation]_vars

\* the texts resolve_file is called with
Filenames ==
  LET prefixes ==
        {<<>>, <<"~">>, <<"f", "i", "l", "e", ":">>, <<"f", "i", "l", "e", ":", "/">>,
         <<"f", "i", "l", "e", ":", "\\">>, <<"/">>, <<"\\">>, <<"C">>, <<"C", ":">>,
         <<"C", ":", "/">>, <<"C", ":", "\\">>, <<"x">>, <<".", "/">>}
      suffixes == {<<>>, <<"x">>, <<"/", "x">>, <<"\\", "x">>, <<"~">>}
  IN {pre \o suf : pre \in prefixes, suf \in suffixes}
FilePages == {Root, <<"a">>, <<"p", "a">>}

\* Notebook.resolve_file; get_attachments_dir calls get_page for the page
resolve_file_call(filename, path) ==
  /\ nops > 0
  /\ last' = [op |-> "resolve_file", path |-> path, newpath |-> Root, ul |-> FALSE,
              uh |-> FALSE, h |-> 0, filename |-> filename,
              result |-> resolve_file(filename, path, document_root, dir)]
  /\ log' = IF last'.result.err = "" /\ last'.result.folder.kind = "attachments"
              THEN <<Ev("get_page", path, Root)>> ELSE <<>>
  /\ nops' = nops - 1
  /\ UNCHANGED <<store, index, uptodate, disable_trash, cache, pages, origin, writes,
               dir, document_root>>

\* a notebook with or without a folder and a document root, and one
\* resolve_file call
InitFile ==
  /\ store \in CacheStores
  /\ uptodate = TRUE
  /\ index = index_of(store)
  /\ disable_trash = FALSE
  /\ cache = <<>>
  /\ pages = <<>>
  /\ log = <<>>
  /\ last = NoCall
  /\ nops = 1
  /\ origin = store
  /\ writes = <<>>
  /\ dir \in {NoDir, NotebookDir}
  /\ document_root \in {NoDir, DocumentRoot}

NextFile == \E filename \in Filenames, path \in FilePages : resolve_file_call(filename, path)

SpecFile == InitFile /\ [][NextFile]_vars

\* a notebook where one page holds two links and another may hold one, and
\* one delete_page call made on it
DeletePaths == {<<"a">>, <<"p">>, <<"p", "a">>, <<"p", "b">>, <<"q", "a">>}
DeleteLinks ==
  {Link(h, h) : h \in {Href("float", <<"a">>), Href("float", <<"p", "a">>),
                       Href("abs", <<"p", "a">>), Href("abs", <<"a">>),
                       Href("rel", <<"a">>)}}
  \cup {Link(Href("float", <<"a">>), CustomText), Link(Href("url", <<"a">>), CustomText)}

\* the notebook with pages P, where src holds links and src2 (if another page
\* of P) holds lnk
StoreOfLinks(P, src, links, src2, lnk) ==
  [p \in Paths |-> IF p \notin P THEN NoContent
                   ELSE IF p = src THEN Doc(Basename(p), links)
                   ELSE IF p = src2 THEN Doc(Basename(p), <<lnk>>)
                   ELSE PlainDoc(p)]

DeleteStores ==
  UNION {{StoreOfLinks(P, src, <<l1, l2>>, src2, l3) :
            src \in P, src2 \in P, l1 \in DeleteLinks,
            l2 \in {Link(Href("url", <<"a">>), CustomText),
                    Link(Href("abs", <<"p", "a">>), Href("abs", <<"p", "a">>))},
            l3 \in {Link(Href("float", <<"a">>), CustomText)}} :
         P \in {Q \in SUBSET DeletePaths : Cardinality(Q) <= MaxPages}}

InitDelete ==
  /\ store \in DeleteStores
  /\ uptodate = TRUE
  /\ index = index_of(store)
  /\ disable_trash = FALSE
  /\ cache = <<>>
  /\ pages = <<>>
  /\ log = <<>>
  /\ last = NoCall
  /\ nops = 1
  /\ origin = store
  /\ writes = <<>>
  /\ dir = NotebookDir
  /\ document_root = NoDir

NextDelete == \E path \in DeletePaths, ul \in BOOLEAN : delete_page(path, ul)

SpecDelete == InitDelete /\ [][NextDelete]_vars

\* a notebook with links, on which a page is renamed and then renamed back
InitRound ==
  /\ store \in InitStores
  /\ uptodate = TRUE
  /\ index = index_of(store)
  /\ disable_trash = FALSE
  /\ cache = <<>>
  /\ pages = <<>>
  /\ log = <<>>
  /\ last = NoCall
  /\ nops = 2
  /\ origin = store
  /\ writes = <<>>
  /\ dir = NotebookDir
  /\ document_root = NoDir

\* the first move: a page with content gets another name under its parent
RoundOut ==
  /\ last.op = "none"
  /\ \E path, newpath \in BasePaths :
       /\ store[path].has
       /\ path # newpath
       /\ Parent(path) = Parent(newpath)
       /\ move_page(path, newpath, TRUE)

\* the second move: the page gets its old name back
RoundBack ==
  /\ last.op = "move_page"
  /\ last.result = "None"
  /\ nops = 1
  /\ move_page(last.newpath, last.path, TRUE)

NextRound == RoundOut \/ RoundBack

SpecRound == InitRound /\ [][NextRound]_vars

\* ------------------------------------------------------------------ properties
Errors ==
  {"IndexNotUptodateError", "PageExistsError", "AssertionError", "TypeError",
   "TrashNotSupportedError", "Error"}

\* event first comes before event then, which comes before event after
InOrder(lg, first, then, after) ==
  \E i, j, k \in DOMAIN lg :
    i < j /\ j < k /\ lg[i].ev = first /\ lg[j].ev \in then /\ lg[k].ev = after

\* the valid page objects of the subtree of path
ValidBelow(path) == {h \in DOMAIN pages : pages[h].valid /\ InTree(pages[h].path, path)}

\* C1: while a caller holds a valid page object for p, get_page(p) returns that
\* object; an object a caller holds stops being valid only in a call that
\* flushes a path covering it; after a flush_page_cache(p) that returns, every
\* object handed out for p is invalid and p has left the cache; and get_page
\* never returns an object that was invalid, so that after the flush it returns
\* another object than before.
C1_CacheIdentity ==
  [][/\ \A h \in DOMAIN pages :
          (/\ last'.op = "get_page"
           /\ pages[h].valid
           /\ pages'[h].held
           /\ pages[h].path = last'.path) => last'.h = h
     /\ \A h \in DOMAIN pages :
          (pages[h].valid /\ pages'[h].held /\ ~pages'[h].valid)
            => \E i \in DOMAIN log' :
                 log'[i].ev = "flush_page_cache" /\ InTree(pages[h].path, log'[i].a)
     /\ (last'.op = "flush_page_cache" /\ last'.result = "None")
          => /\ \A h \in DOMAIN pages : pages[h].path = last'.path => ~pages'[h].valid
             /\ Name(last'.path) \notin DOMAIN cache'
     /\ (last'.op = "get_page" /\ last'.h \in DOMAIN pages) => pages[last'.h].valid
    ]_vars

\* C1 witness: get_page returned a new valid object for a name whose earlier
\* object, flushed and invalid, a caller still holds
C1_Witness ==
  /\ last.op = "get_page"
  /\ last.h \in DOMAIN pages
  /\ pages[last.h].valid
  /\ \E h \in DOMAIN pages :
       /\ h # last.h
       /\ pages[h].held
       /\ pages[h].path = last.path
       /\ ~pages[h].valid

\* C2: at most one valid page object exists per page name, and it is the one
\* the cache holds for that name.
C2_OneValidHandle ==
  /\ \A h \in DOMAIN pages :
       pages[h].valid =>
         /\ Name(pages[h].path) \in DOMAIN cache
         /\ cache[Name(pages[h].path)] = h
  /\ \A h1, h2 \in DOMAIN pages :
       (pages[h1].valid /\ pages[h2].valid /\ pages[h1].path = pages[h2].path) => h1 = h2

\* C2 witness: get_new_page handed out a valid object for a name of which a
\* caller holds an older, invalid object
C2_Witness ==
  /\ last.op = "get_new_page"
  /\ \E h1, h2 \in DOMAIN pages :
       /\ h1 # h2
       /\ pages[h1].path = pages[h2].path
       /\ pages[h1].held /\ pages[h2].held
       /\ pages[h1].valid /\ ~pages[h2].valid

\* C3: a move_page that returns has emitted move-page before the store moved
\* the page and moved-page after it.
C3_MoveSignals ==
  (last.op = "move_page" /\ last.result = "None")
    => InOrder(log, "move-page", {"store.move_page"}, "moved-page")

\* C4: a delete_page or trash_page that returns has emitted delete-page before
\* the store deleted the page and deleted-page after it, whatever update_links
\* is and whether or not the index still knows the name.
C4_DeleteSignals ==
  (last.op \in {"delete_page", "trash_page"} /\ last.result \notin Errors)
    => InOrder(log, "delete-page", {"store.delete_page", "store.trash_page"}, "deleted-page")

\* C5: a delete_page that returns gives True when the page existed and False
\* when it did not, and when no page linked to the deleted section no page is
\* stored.
C5_DeleteReturn ==
  [][(last'.op = "delete_page" /\ last'.result \notin Errors)
       => /\ last'.result = IF StoreExists(store, last'.path) THEN "True" ELSE "False"
          /\ BackSources(index, last'.path) = {}
               => \A i \in DOMAIN log' : log'[i].ev \notin {"store-page", "page._store"}
    ]_vars

\* C6: move_page with update_links set while the index is not up to date
\* raises IndexNotUptodateError; store, index, cache and page objects are as
\* before and nothing was called, no page stored.
C6_IndexStale ==
  [][(last'.op = "move_page" /\ last'.ul /\ ~uptodate)
       => /\ last'.result = "IndexNotUptodateError"
          /\ UNCHANGED <<store, index, cache, pages>>
          /\ log' = <<>>
    ]_vars

\* C6 witness: the move of a page a caller holds a valid object of was refused
\* for the stale index
C6_Witness ==
  /\ last.op = "move_page"
  /\ last.ul
  /\ ~uptodate
  /\ last.result = "IndexNotUptodateError"
  /\ ValidBelow(last.path) # {}

\* C7: trash_page with disable_trash set raises TrashNotSupportedError before
\* anything happened: no signal, no call of the store, no flush, no index
\* update, and store, index, cache and page objects are as before.
C7_TrashDisabled ==
  [][(last'.op = "trash_page" /\ disable_trash)
       => /\ last'.result = "TrashNotSupportedError"
          /\ UNCHANGED <<store, index, cache, pages>>
          /\ log' = <<>>
    ]_vars

\* C7 witness: the trashing of an existing page a caller holds a valid object
\* of was refused for the configuration
C7_Witness ==
  /\ last.op = "trash_page"
  /\ disable_trash
  /\ last.result = "TrashNotSupportedError"
  /\ StoreExists(store, last.path)
  /\ ValidBelow(last.path) # {}

\* C8: when the store rejects the move, move_page raises PageExistsError, and
\* a move_page that raised it left index, cache, page objects (all as valid as
\* before) and the contents of all pages as they were.
C8_PageExists ==
  [][/\ (/\ last'.op = "move_page"
         /\ (last'.ul => uptodate)
         /\ store_move_rejects(store, last'.path, last'.newpath))
          => last'.result = "PageExistsError"
     /\ (last'.op = "move_page" /\ last'.result = "PageExistsError")
          => UNCHANGED <<store, index, cache, pages>>
    ]_vars

\* C8 witness: the store rejected the move, with link repair asked for, of a
\* page a caller holds a valid object of
C8_Witness ==
  /\ last.op = "move_page"
  /\ last.ul
  /\ last.result = "PageExistsError"
  /\ store[last.newpath].has
  /\ ValidBelow(last.path) # {}

\* C9: a move_page with update_links unset that returns has moved the section
\* in the store and changed no document; it called the store, the index and
\* the flush of the cache and nothing else, so no page was stored.
C9_MoveOnly ==
  [][(last'.op = "move_page" /\ ~last'.ul /\ last'.result = "None")
       => /\ store' = store_move_page(store, last'.path, last'.newpath)
          /\ \A i \in DOMAIN log' :
               log'[i].ev \in {"store.move_page", "index.on_delete_page", "index.update",
                               "flush_page_cache"}
    ]_vars

\* C9 witness: a page with content was moved without link repair and a link of
\* another page still has the old name on record
C9_Witness ==
  /\ last.op = "move_page"
  /\ ~last.ul
  /\ last.result = "None"
  /\ last.newpath # last.path
  /\ store[last.newpath].has
  /\ \E l \in SeqRange(IdxLinks(index)) : l.target = last.path /\ l.source # last.newpath

\* C10: after a move_page with update_links set that returns, of a page with
\* content to a name that is neither above nor below the old one, in every page outside the moved
\* section a link that resolved to the old name or below it
\* resolves to the new name or the same name below it, and a link that resolved
\* into the new section already is as it was.
C10_IncomingRepair ==
  [][(/\ last'.op = "move_page" /\ last'.ul /\ last'.result = "None"
      /\ store[last'.path].has
      /\ ~InTree(last'.path, last'.newpath) /\ ~InTree(last'.newpath, last'.path))
       => \A s \in DOMAIN store :
            (store[s].has /\ ~InTree(s, last'.path) /\ ~InTree(s, last'.newpath))
              => \A k \in DOMAIN store[s].elts :
                   (store[s].elts[k].type = "link" /\ IsPageLink(store[s].elts[k].href))
                     => /\ InTree(resolve_link(index, s, store[s].elts[k].href), last'.path)
                          => /\ store'[s].has
                             /\ store'[s].elts[k].type = "link"
                             /\ resolve_link(index', s, store'[s].elts[k].href)
                                  = Rebase(resolve_link(index, s, store[s].elts[k].href),
                                           last'.path, last'.newpath)
                        /\ (/\ InTree(resolve_link(index, s, store[s].elts[k].href),
                                      last'.newpath)
                            /\ ~InTree(resolve_link(index, s, store[s].elts[k].href),
                                       last'.path))
                          => store'[s].elts[k] = store[s].elts[k]
    ]_vars

\* a page with content of the current notebook
HasPage(p) == p \in DOMAIN store /\ store[p].has

\* the index as move_page leaves it before the repair passes
MovedIndex(path, newpath) ==
  move_page_index(move_page_store(World, path, newpath), path, newpath).index

\* C11: after a move_page with update_links set that returns, of a page with
\* content to a name neither above nor below the old one, a link of the moved
\* section that resolved to a page with content outside the old section and,
\* from its new place, resolves outside the new section, resolves from the new place to the target
\* it had from the old place; it is rewritten only when the two resolutions
\* differ, and an absolute link stays absolute.
C11_OutgoingRepair ==
  [][(/\ last'.op = "move_page" /\ last'.ul /\ last'.result = "None"
      /\ store[last'.path].has
      /\ ~InTree(last'.path, last'.newpath) /\ ~InTree(last'.newpath, last'.path))
       => \A s \in DOMAIN store :
            (store[s].has /\ InTree(s, last'.path))
              => \A k \in DOMAIN store[s].elts :
                   (/\ store[s].elts[k].type = "link"
                    /\ IsPageLink(store[s].elts[k].href)
                    /\ ~InTree(resolve_link(index, s, store[s].elts[k].href), last'.path)
                    /\ HasPage(resolve_link(index, s, store[s].elts[k].href))
                    /\ ~InTree(resolve_link(MovedIndex(last'.path, last'.newpath),
                                            Rebase(s, last'.path, last'.newpath),
                                            store[s].elts[k].href),
                               last'.newpath))
                     => /\ store'[Rebase(s, last'.path, last'.newpath)].elts[k].type = "link"
                        /\ resolve_link(index', Rebase(s, last'.path, last'.newpath),
                                        store'[Rebase(s, last'.path, last'.newpath)].elts[k].href)
                             = resolve_link(index, s, store[s].elts[k].href)
                        /\ store'[Rebase(s, last'.path, last'.newpath)].elts[k] # store[s].elts[k]
                             => resolve_link(MovedIndex(last'.path, last'.newpath),
                                             Rebase(s, last'.path, last'.newpath),
                                             store[s].elts[k].href)
                                  # resolve_link(index, s, store[s].elts[k].href)
                        /\ store[s].elts[k].href.rel = "abs"
                             => store'[Rebase(s, last'.path, last'.newpath)].elts[k].href.rel
                                  = "abs"
    ]_vars

\* the page that link k of page s resolved to when the run started
OriginTarget(s, k) == resolve_link(index_of(origin), s, origin[s].elts[k].href)

\* C12: when a page with content was moved to another name under its parent
\* and then back, both with update_links set and both returning, every link
\* of a page outside the moved section that resolved to a page with content
\* is still a link and resolves to the page it resolved to before the first
\* move.
C12_MoveRoundTrip ==
  [][(/\ last.op = "move_page" /\ last.result = "None" /\ nops = 1
      /\ last'.op = "move_page" /\ last'.result = "None"
      /\ last'.path = last.newpath /\ last'.newpath = last.path)
       => \A s \in DOMAIN origin :
            (origin[s].has /\ ~InTree(s, last.path))
              => \A k \in DOMAIN origin[s].elts :
                   (/\ origin[s].elts[k].type = "link"
                    /\ IsPageLink(origin[s].elts[k].href)
                    /\ OriginTarget(s, k) \in DOMAIN origin
                    /\ origin[OriginTarget(s, k)].has)
                     => /\ store'[s].has
                        /\ k \in DOMAIN store'[s].elts
                        /\ store'[s].elts[k].type = "link"
                        /\ resolve_link(index', s, store'[s].elts[k].href)
                             = OriginTarget(s, k)
    ]_vars

C14_LinkRoundTrip ==
  last.op = "relative_link"
    => resolve_link(index, last.path, new_from_wiki_link(last.result)) = last.newpath

\* the decimal digits of the numbers get_new_page is seen to reach
Decimal == <<"1", "2", "3", "4">>

\* C15: the page object get_new_page returns has neither content nor children;
\* it has the name asked for when the page of that name has neither, and else
\* that name followed by a blank and the smallest number from 1 on for which
\* the page has neither.
C15_NewPageName ==
  [][last'.op = "get_new_page"
       => /\ pages'[last'.h].path = last'.newpath
          /\ pages'[last'.h].valid
          /\ (~Taken(World, last.newpath))'
          /\ \/ last'.newpath = last'.path
             \/ \E n \in 1..MaxNumber :
                  /\ Name(last'.newpath) = Name(last'.path) \o <<" ", Decimal[n]>>
                  /\ Taken(World, last'.path)
                  /\ \A j \in 1..(n - 1) :
                       \E q \in Paths :
                         /\ Name(q) = Name(last'.path) \o <<" ", Decimal[j]>>
                         /\ Taken(World, q)
    ]_vars

\* C15 witness: a and 'a 1' are taken and get_new_page gave 'a 2'
C15_Witness ==
  /\ last.op = "get_new_page"
  /\ last.path = <<"a">>
  /\ last.newpath = <<"a 2">>
  /\ store[<<"a">>].has
  /\ store[<<"a 1">>].has
  /\ pages[last.h].path = <<"a 2">>

\* C16: after a rename_page with update_links set that returns, of a page
\* with content to another name, a link of that page to itself written as its
\* bare basename is the bare new basename and resolves to the renamed page.
C16_SelfLinkRename ==
  [][(/\ last'.op = "rename_page" /\ last'.ul /\ last'.result \notin Errors
      /\ store[last'.path].has
      /\ last'.newpath # last'.path)
       => \A k \in DOMAIN store[last'.path].elts :
            (/\ store[last'.path].elts[k].type = "link"
             /\ store[last'.path].elts[k].href = Href("float", <<Basename(last'.path)>>))
              => /\ store'[last'.newpath].has
                 /\ store'[last'.newpath].elts[k].type = "link"
                 /\ store'[last'.newpath].elts[k].href
                      = Href("float", <<Basename(last'.newpath)>>)
                 /\ resolve_link(index', last'.newpath, store'[last'.newpath].elts[k].href)
                      = last'.newpath
    ]_vars

\* C17: store_page and store_page_async called on a page object that is no
\* longer valid raise an assertion error; no store-page is emitted, and store,
\* index and background writes are as before.
C17_StaleHandle ==
  [][(/\ last'.op \in {"store_page", "store_page_async"}
      /\ last'.h \in DOMAIN pages
      /\ ~pages[last'.h].valid)
       => /\ last'.result = "AssertionError"
          /\ \A i \in DOMAIN log' : log'[i].ev # "store-page"
          /\ store' = store
          /\ index' = index
          /\ writes' = writes
    ]_vars

\* C17 witness: a page object that a caller holds was invalidated and
\* store_page on it raised
C17_Witness ==
  /\ last.op = "store_page"
  /\ last.result = "AssertionError"
  /\ pages[last.h].held
  /\ ~pages[last.h].valid

\* C18: flush_page_cache raises an assertion error when the cached page object
\* of the name, or of a cached name below it, is modified; the modified object
\* it stopped at is still valid and still the one the cache holds for its name.
C18_FlushModified ==
  [][(/\ last'.op = "flush_page_cache"
      /\ \E k \in DOMAIN cache :
           /\ k = Name(last'.path) \/ StartsWith(k, Name(last'.path) \o <<":">>)
           /\ pages[cache[k]].modified)
       => /\ last'.result = "AssertionError"
          /\ \A k \in DOMAIN cache :
               (/\ k = Name(last'.path) \/ StartsWith(k, Name(last'.path) \o <<":">>)
                /\ pages[cache[k]].modified)
                 => /\ k \in DOMAIN cache'
                    /\ cache'[k] = cache[k]
                    /\ pages'[cache[k]].valid
                    /\ pages'[cache[k]].modified
    ]_vars

\* C18 witness: flush_page_cache(p) raised at the modified page object of p:a
C18_Witness ==
  /\ last.op = "flush_page_cache"
  /\ last.path = <<"p">>
  /\ last.result = "AssertionError"
  /\ Name(<<"p", "a">>) \in DOMAIN cache
  /\ pages[cache[Name(<<"p", "a">>)]].modified
  /\ pages[cache[Name(<<"p", "a">>)]].valid

\* C19: store_page_async on a valid page object emits store-page, calls the
\* store's store_page_async and emits stored-page, in this order, and returns
\* what the store returned: the thread of a background write, which is still
\* to be done when the call returns, or None when the store wrote at once.
C19_AsyncStore ==
  [][(/\ last'.op = "store_page_async"
      /\ last'.h \in DOMAIN pages
      /\ pages[last'.h].valid)
       => /\ log' = <<Ev("store-page", last'.path, Root),
                      Ev("store.store_page_async", last'.path, Root),
                      Ev("stored-page", last'.path, Root)>>
          /\ index' = index
          /\ \/ /\ last'.result = "FunctionThread"
                /\ Len(writes') = Len(writes) + 1
                /\ writes'[Len(writes')].path = last'.path
                /\ SubSeq(writes', 1, Len(writes)) = writes
                /\ store' = store
             \/ /\ last'.result = "None"
                /\ writes' = writes
                /\ store'[last'.path] = get_parsetree(World, last'.path)
    ]_vars

\* C19 witness: stored-page was emitted for page a and the write of its new
\* content is not done: the store still holds the old content
C19_Witness ==
  /\ last.op = "store_page_async"
  /\ last.result = "FunctionThread"
  /\ last.path = <<"a">>
  /\ \E i \in DOMAIN log : log[i] = Ev("stored-page", <<"a">>, Root)
  /\ \E i \in DOMAIN writes :
       /\ writes[i].path = <<"a">>
       /\ writes[i].tree = PlainDoc(<<"c">>)
  /\ store[<<"a">>] # PlainDoc(<<"c">>)

\* the folder, or the failure, that the classification of text f by its prefix
\* asks of the result r of the last resolve_file call
FileClass(f, r) ==
  IF StartsWith(f, <<"~">>) \/ StartsWith(f, <<"f", "i", "l", "e", ":", "/">>)
    THEN r.err = "" /\ r.folder = NoDir
  ELSE IF StartsWith(f, <<"/">>)
    THEN r.err = "" /\ r.folder = (IF document_root # NoDir THEN document_root ELSE FsRoot)
  ELSE IF is_win32_path(f)
    THEN r.err = "" /\ r.folder = NoDir /\ r.name[1] = "/"
  ELSE IF last.path # Root
    THEN r.err = "" /\ r.folder = FolderOf("attachments", last.path)
  ELSE IF dir # NoDir THEN r.err = "" /\ r.folder = dir
  ELSE r.err = "AssertionError"

FlushScope(k, path) == k = Name(path) \/ StartsWith(k, Name(path) \o <<":">>)

\* C21: a flush_page_cache that returns marks invalid and removes from the
\* cache the page object of the name and those of the cached names that start
\* with the name and ':'; every other cached page object stays valid and
\* cached, and no other page object changes.
C21_FlushFrame ==
  [][(last'.op = "flush_page_cache" /\ last'.result = "None")
       => /\ \A k \in DOMAIN cache :
               IF FlushScope(k, last'.path)
                 THEN k \notin DOMAIN cache' /\ ~pages'[cache[k]].valid
               ELSE /\ k \in DOMAIN cache'
                    /\ cache'[k] = cache[k]
                    /\ pages'[cache[k]] = pages[cache[k]]
                    /\ pages'[cache[k]].valid
          /\ DOMAIN cache' \subseteq DOMAIN cache
          /\ \A h \in DOMAIN pages :
               (\A k \in DOMAIN cache : cache[k] # h) => pages'[h] = pages[h]
    ]_vars

\* C21 witness: flush_page_cache(a) removed the page object of a and left
\* that of 'a 1' valid and cached
C21_Witness ==
  /\ last.op = "flush_page_cache"
  /\ last.path = <<"a">>
  /\ last.result = "None"
  /\ Name(<<"a 1">>) \in DOMAIN cache
  /\ pages[cache[Name(<<"a 1">>)]].valid
  /\ \E h \in DOMAIN pages : pages[h].path = <<"a">> /\ pages[h].held /\ ~pages[h].valid

\* the log lg of a move_page(path, newpath) with update_links set that
\* returned shows the steps in their order, each ended before the next begins
MoveStepOrder(lg, path, newpath) ==
  LET d == ~(newpath = path \/ IsChild(newpath, path))
      n == IF d THEN 3 ELSE 2
  IN /\ Len(lg) >= n + 4
     /\ lg[1] = Ev("store.move_page", path, newpath)
     /\ IF d THEN lg[2] = Ev("index.on_delete_page", path, Root)
        ELSE \A i \in DOMAIN lg : lg[i].ev # "index.on_delete_page"
     /\ lg[n] = Ev("index.update", newpath, Root)
     /\ lg[n + 1] = Ev("flush_page_cache", path, Root)
     /\ lg[n + 2] = Ev("_update_links_in_moved_page", path, newpath)
     /\ lg[Len(lg)] = Ev("_update_links_to_moved_page.return", path, newpath)
     /\ \E r \in (n + 3)..(Len(lg) - 2) :
          /\ lg[r] = Ev("_update_links_in_moved_page.return", path, newpath)
          /\ lg[r + 1] = Ev("_update_links_to_moved_page", path, newpath)
          /\ \A i \in DOMAIN lg :
               /\ lg[i].ev = "_update_moved_page" => (n + 2 < i /\ i < r)
               /\ lg[i].ev = "_move_links_in_page" => i > r + 1
               /\ lg[i].ev \in {"store.move_page", "index.update", "flush_page_cache"}
                    => i <= n + 1

\* C22: a move_page with update_links set that returns has moved the page in
\* the store, then told the index that the old name is gone (only when the new
\* name is neither the old one nor below it), then had the new name indexed,
\* then flushed the cache for the old name, then run the repair of the links
\* of the moved pages to its end and only then the repair of the links to them.
C22_MoveStepOrder ==
  [][(last'.op = "move_page" /\ last'.ul /\ last'.result = "None")
       => MoveStepOrder(log', last'.path, last'.newpath)]_vars

\* C22 witness: a move whose two repairs both rewrote a page
C22_Witness ==
  /\ last.op = "move_page"
  /\ last.ul
  /\ last.result = "None"
  /\ \E i, j \in DOMAIN log :
       /\ i < j
       /\ log[i].ev = "_update_moved_page"
       /\ log[j].ev = "_move_links_in_page"

\* the notation the case table gives for a link from s to t: the marker the
\* text starts with and the names that follow
NotationTable(s, t) ==
  CASE t = s -> [marker |-> "", names |-> <<t[Len(t)]>>]
    [] t # s /\ IsChild(t, s) -> [marker |-> "+", names |-> SubSeq(t, Len(s) + 1, Len(t))]
    [] OTHER ->
         LET c == CHOOSE n \in 0..Len(s) :
                    /\ n <= Len(t)
                    /\ SubSeq(s, 1, n) = SubSeq(t, 1, n)
                    /\ (n < Len(s) /\ n < Len(t)) => s[n + 1] # t[n + 1]
         IN CASE c = 0 ->
                   IF \E i \in 1..Len(s) : Lower(s[i]) = Lower(t[1])
                     THEN [marker |-> ":", names |-> t]
                   ELSE [marker |-> "", names |-> t]
              [] c # 0 /\ c = Len(t) -> [marker |-> "", names |-> <<t[c]>>]
              [] c # 0 /\ c # Len(t) /\ c = Len(s) - 1 ->
                   [marker |-> "", names |-> SubSeq(t, c + 1, Len(t))]
              [] OTHER -> [marker |-> "", names |-> <<t[c]>> \o SubSeq(t, c + 1, Len(t))]

\* C23: relative_link gives, for every two names, the notation of the case
\* table: the basename for the page itself, '+' and the relative name for a
\* page below, and else by the common parent: at the root ':' and the name
\* when its first part is, but for case, a part of the source, and the bare
\* name if not; the basename of a parent; the relative name of a sibling or a
\* page below one; else the basename of the common parent, ':' and the name
\* relative to it.
C23_NotationTable ==
  last.op = "relative_link" => last.result = NotationTable(last.path, last.newpath)

\* C23 witness: the last case of the table, and the case of names that differ
\* in case only, were met
C23_Witness ==
  /\ last.op = "relative_link"
  /\ last.path = <<"p", "a", "b">>
  /\ last.newpath = <<"p", "b", "a">>
  /\ last.result = [marker |-> "", names |-> <<"p", "b", "a">>]

\* C24: a rename_page that returns has moved the page to the new basename
\* under the same parent by move_page and returns the new name; when
\* update_heading is set and the page had content, the document stored at the
\* new name has the new basename as its heading, and it was stored after the
\* move and its repairs.
C24_RenameHeading ==
  [][(last'.op = "rename_page" /\ last'.result \notin Errors)
       => /\ last'.result = "newpath"
          /\ Parent(last'.newpath) = Parent(last'.path)
          /\ log'[1] = Ev("store.move_page", last'.path, last'.newpath)
          /\ (last'.uh /\ store[last'.path].has)
               => /\ store'[last'.newpath].has
                  /\ store'[last'.newpath].heading = Basename(last'.newpath)
                  /\ Len(log') >= 4
                  /\ log'[Len(log') - 3] = Ev("store-page", last'.newpath, Root)
                  /\ log'[Len(log') - 2] = Ev("page._store", last'.newpath, Root)
                  /\ log'[Len(log')] = Ev("stored-page", last'.newpath, Root)
    ]_vars

\* C24 witness: p:a, whose heading was a, was renamed to p:c with
\* update_heading set and has the heading c
C24_Witness ==
  /\ last.op = "rename_page"
  /\ last.uh
  /\ last.result = "newpath"
  /\ last.path = <<"p", "a">>
  /\ last.newpath = <<"p", "c">>
  /\ origin[<<"p", "a">>].has
  /\ origin[<<"p", "a">>].heading = "a"
  /\ store[<<"p", "c">>].heading = "c"

\* C25: store_page on a valid page object emits store-page, has the page
\* written, tells the index and emits stored-page, in this order and nothing
\* else; when a handler of store-page or the write raises, the call raises,
\* the index is not told, stored-page is not emitted, and after a handler
\* raised the store is as before.
C25_StoreOrder ==
  [][(/\ last'.op = "store_page"
      /\ last'.h \in DOMAIN pages
      /\ pages[last'.h].valid)
       => \/ /\ last'.result = "None"
             /\ log' = <<Ev("store-page", last'.path, Root),
                         Ev("page._store", last'.path, Root),
                         Ev("index.on_store_page", last'.path, Root),
                         Ev("stored-page", last'.path, Root)>>
             /\ store'[last'.path] = get_parsetree(World, last'.path)
          \/ /\ last'.result = "Error"
             /\ log' = <<Ev("store-page", last'.path, Root)>>
             /\ store' = store
             /\ index' = index
          \/ /\ last'.result = "Error"
             /\ log' = <<Ev("store-page", last'.path, Root),
                         Ev("page._store", last'.path, Root)>>
             /\ index' = index
    ]_vars

\* C25 witness: the write of a page with new content raised after store-page
\* was emitted
C25_Witness ==
  /\ last.op = "store_page"
  /\ last.result = "Error"
  /\ pages[last.h].valid
  /\ pages[last.h].modified
  /\ Len(log) = 2
  /\ log[2].ev = "page._store"

\* ----------------------------------------------------------------- repair
\* notebooks where one page holds two links, and callers who keep a page
\* object and change it before a move
RepairPaths == {<<"p", "a">>, <<"p", "c">>, <<"q", "a">>}
RepairLinks ==
  {Link(h, h) : h \in {Href("float", <<"a", "b">>), Href("float", <<"b">>),
                       Href("float", <<"c">>)}}
RepairStores ==
  UNION {{StoreOfLinks(P, src, <<l1, l2>>, src, l1) :
            src \in P, l1 \in RepairLinks, l2 \in RepairLinks} :
         P \in {{<<"p", "a">>, <<"p", "c">>}, {<<"p", "a">>, <<"p", "b">>, <<"p", "c">>}}}

InitRepair ==
  /\ store \in RepairStores
  /\ uptodate = TRUE
  /\ index = index_of(store)
  /\ disable_trash = FALSE
  /\ cache = <<>>
  /\ pages = <<>>
  /\ log = <<>>
  /\ last = NoCall
  /\ nops = MaxOps
  /\ origin = store
  /\ writes = <<>>
  /\ dir = NotebookDir
  /\ document_root = NoDir

NextRepair ==
  \/ \E path \in RepairPaths : get_page(path)
  \/ \E h \in DOMAIN pages : set_parsetree(h, PlainDoc(<<"c">>))
  \/ \E path, newpath \in RepairPaths, ul \in BOOLEAN : move_page(path, newpath, ul)

SpecRepair == InitRepair /\ [][NextRepair]_vars

\* the pages that move_page(path, newpath) has the store move
MovedPages(path, newpath) == {p \in Paths : InTree(p, path) /\ store[p].has}

\* C26: when move_page raises after the store has moved the pages (the
\* assertion of the flush on a page with unsaved changes, or an error of the
\* link repair), the pages stay moved in the store and the index keeps the
\* new names: nothing is rolled back.
C26_NoRollback ==
  [][(last'.op = "move_page" /\ last'.result \in {"AssertionError", "TypeError"})
       => LET path == last'.path
              newpath == last'.newpath
              moved == MovedPages(path, newpath)
              names == {Rebase(p, path, newpath) : p \in moved}
          IN /\ log'[1] = Ev("store.move_page", path, newpath)
             /\ \E i \in DOMAIN log' : log'[i] = Ev("index.update", newpath, Root)
             /\ \A p \in moved :
                  /\ store'[Rebase(p, path, newpath)].has
                  /\ store'[Rebase(p, path, newpath)].heading = store[p].heading
                  /\ index'[Rebase(p, path, newpath)].doc.has
                  /\ p \notin names => ~store'[p].has /\ ~index'[p].doc.has
             /\ last'.result = "AssertionError"
                  => /\ log'[Len(log')] = Ev("flush_page_cache", path, Root)
                     /\ store' = store_move_page(store, path, newpath)
    ]_vars

\* C26 witness: a page with content was moved and the flush met a page object
\* with unsaved changes below the old name
C26_Witness ==
  /\ last.op = "move_page"
  /\ last.result = "AssertionError"
  /\ last.path # last.newpath
  /\ origin[last.path].has
  /\ store[last.newpath].has
  /\ ~store[last.path].has

\* the page object the cache gives for path, 0 when it has none to give
Registered(c, ps, path) == Cached([cache |-> c, pages |-> ps], path)

\* C27: after a move_page(path, newpath) that returns, no page object that
\* the cache gave before the move for path, for newpath or for a name below
\* either is given by get_page any more; get_page(newpath) builds its page
\* object from the store as it is after the move.
C27_MoveEvicts ==
  [][(last'.op = "move_page" /\ last'.result = "None")
       => \A h \in DOMAIN pages :
            (/\ Registered(cache, pages, pages[h].path) = h
             /\ \/ InTree(pages[h].path, last'.path)
                \/ InTree(pages[h].path, last'.newpath))
              => Registered(cache', pages', pages[h].path) # h
    ]_vars

\* C28: in the outgoing repair of one move_page of a page with content to
\* another name, a page of the moved section
\* is passed to _update_moved_page (loaded, rewritten and stored) at most
\* once, however many of its links resolve outside the new section.
C28_OutgoingOnce ==
  [][(/\ last'.op = "move_page" /\ last'.ul
      /\ last'.path # last'.newpath /\ store[last'.path].has)
       => \A i, j \in DOMAIN log' :
            (/\ log'[i].ev = "_update_moved_page"
             /\ log'[j].ev = "_update_moved_page"
             /\ log'[i].a = log'[j].a)
              => i = j
    ]_vars

====
